---- MODULE Spec2Model ----
(***************************************************************************)
(* Model of the all-limiteds collector: getjson.py (Direct mode) and       *)
(* getjson_cfbypass.py (Bypass mode).  One sequential process walks the    *)
(* items pages and, for every item, the owners pages, merging usernames    *)
(* into the global dict `items`; main() then dumps `items` to owners.json. *)
(*                                                                         *)
(* The network is the environment: every request draws its outcome from a  *)
(* small set (an exception of the transport, an HTTP status, a body).      *)
(* Variables after the line "history" record what happened (which pages    *)
(* were fetched, whether a sleep occurred); the program does not read them.*)
(*                                                                         *)
(* A second specification, SpecFn, applies on their own the functions that *)
(* the report script main.py and the collector's save and merge are made   *)
(* of, to inputs drawn from bounded sets.                                  *)
(***************************************************************************)
EXTENDS Integers, Sequences, FiniteSets, TLC

VARIABLES
    mode,          \* "Direct" (getjson.py) or "Bypass" (getjson_cfbypass.py)
    pc,            \* position of the single thread of control
    items,         \* the global dict: id -> NoItem or [name, owners]
    page,          \* process_all_items: page
    pending,       \* process_all_items: entries of the for loop not yet visited
    meta,          \* process_all_items: meta.lastPage of the parsed page (0: absent)
    item_id,       \* process_owners: item_id (0: no call in progress)
    opage,         \* process_owners: page
    attempt,       \* Bypass fetch_items / fetch_owners: attempt
    response,      \* the response in hand: "none", "429", "200", "body"
    url,           \* Direct: response.url, the URL handle_rate_limit re-requests
    file,          \* owners.json: NoFile or <<the dumped dict>>
    \* ---- history ----
    rlRetries,     \* consecutive 429 responses to the current request
    bodyRetries,   \* consecutive body-parse failures of the current page
    itemsFetched,  \* items pages whose body was obtained, parsed and taken
                   \* (Bypass rejects a page without a data list), in order
    ownersFetched, \* owners pages parsed for item_id since its registration
    paced,         \* PAGE_DELAY was slept since the last successful page fetch
    merged,        \* id -> inventory records of parsed pages since registration
    open,          \* ids registered whose process_owners call has not returned
    declared,      \* 0 before the first items request is answered; N when every
                   \* items request so far was answered at once by a parsable
                   \* page that the script took and that declared lastPage = N;
                   \* -1 otherwise
    regs,          \* number of registrations (items[item_id] = ...) so far
    lastEmpty,     \* the last parsed owners page of item_id had no inventories
    lastNone,      \* Bypass: attempts made by the fetch call whose None is in
                   \* hand (0: the response in hand is not None)
    overwrote,     \* the last registration replaced an entry that had owners
    noPages,       \* the last parsed owners page of item_id had inventories
                   \* and no "pages" field
    \* ---- the functions checked on their own (specification SpecFn) ----
    fn,            \* the function applied: "process_owners" (its merge loop),
                   \* "snapshot" (save_owners, then process_data of main.py),
                   \* "aggregate_others"; "none" in a run of the collector
    fpc,           \* "in", "saved", "loaded", "out"
    arg,           \* the input drawn for fn
    text,          \* owners.json as written by save_owners: the members of the
                   \* JSON object, in order
    data,          \* process_data: data = json.load(f)
    ret            \* the result of fn

vars == <<mode, pc, items, page, pending, meta, item_id, opage, attempt,
          response, url, file, rlRetries, bodyRetries, itemsFetched,
          ownersFetched, paced, merged, open, declared, regs,
          lastEmpty, lastNone, overwrote, noPages>>

fvars == <<fn, fpc, arg, text, data, ret>>

(***************************************************************************)
(* Bounds of the model and constants of the program.                       *)
(***************************************************************************)
MaxPage == 2          \* largest items page number
MaxOwnerPages == 2    \* largest owners page number
MaxEntries == 2       \* entries in one items page
MaxInventories == 2   \* inventory records in one owners page
MaxRegs == 2          \* entries the items endpoint lists in one run
MaxRateLimit == 3     \* consecutive 429 responses the environment gives
MaxBodyRetries == 8   \* consecutive unparsable bodies the environment gives
FaultyPages == 1      \* items requests may fail until this many pages parsed
FaultyItems == 1      \* owners requests may fail for this many registrations

ITEMS_MAX_RETRIES == 5    \* getjson_cfbypass.py fetch_items: max_retries
OWNERS_MAX_RETRIES == 7   \* getjson_cfbypass.py fetch_owners: max_retries

Absent == "<absent>"      \* a key the JSON object does not have
NoItem == [name |-> Absent, owners |-> <<>>]
NoFile == <<>>              \* owners.json does not exist; else <<the dict>>
NoUrl == [ep |-> "none", id |-> 0, page |-> 0]

Ids == {10, 11}
Usernames == {"a", ""}

\* The entries an items page's data list can hold: {id, name?}.  Item 10 is
\* listed under two names, item 11 without a name.
Entries == {[id |-> 10, name |-> "Hat"], [id |-> 10, name |-> "Cap"],
            [id |-> 11, name |-> Absent]}

\* An inventory record: {user?: {username?}}.
InvRecords == [user : {"present"}, username : Usernames \cup {Absent}]
              \cup {[user |-> Absent, username |-> Absent]}

SeqsUpTo(S, n) == UNION {[1..k -> S] : k \in 0..n}

\* A parsed items page: data (a list when hasData) and meta.lastPage
\* (0: absent).
ItemsPages == {b \in [hasData : BOOLEAN, data : SeqsUpTo(Entries, MaxEntries),
                      lastPage : 0..MaxPage] : ~b.hasData => b.data = <<>>}

\* A parsed owners page: inventories (a list; absent reads as empty) and
\* pages (0: absent, which data.get("pages", 0) reads as 0).
OwnersPages == [inventories : SeqsUpTo(InvRecords, MaxInventories),
                pages : 0..MaxOwnerPages]

(***************************************************************************)
(* Pure helpers.                                                           *)
(***************************************************************************)
\* A lookup that keeps a missing user or username apart from the empty
\* string.
Username_missing(inv) ==
    IF inv.user = Absent THEN Absent ELSE inv.username

\* inv.get("user", {}).get("username", "")
Username(inv) ==
    IF inv.user = Absent THEN ""
    ELSE IF inv.username = Absent THEN "" ELSE inv.username

\* entry.get("name", "")
EntryName(entry) == IF entry.name = Absent THEN "" ELSE entry.name

\* A merge that appends without looking for the name.
MergeOwner_append(owners, username) ==
    Append(owners, [name |-> username, count |-> 1])

\* The for/else over items[item_id]["owners"]: increment the first entry of
\* that name, or append a new entry with count 1.
MergeOwner(owners, username) ==
    IF \E i \in 1..Len(owners) : owners[i].name = username
    THEN LET i == CHOOSE k \in 1..Len(owners) :
                      /\ owners[k].name = username
                      /\ \A j \in 1..(k-1) : owners[j].name # username
         IN  [owners EXCEPT ![i].count = @ + 1]
    ELSE Append(owners, [name |-> username, count |-> 1])

\* for inv in inventories: merge its username.
RECURSIVE MergeAll(_, _)
MergeAll(owners, inventories) ==
    IF inventories = <<>> THEN owners
    ELSE MergeAll(MergeOwner(owners, Username(Head(inventories))),
                  Tail(inventories))

\* A merge into every entry of the dict, not only the one of item_id.
MergeInto_all(its, id, inventories) ==
    [i \in DOMAIN its |->
        IF its[i] = NoItem THEN its[i]
        ELSE [its[i] EXCEPT !.owners = MergeAll(@, inventories)]]

\* for inv in inventories: ... items[item_id]["owners"] ...
MergeInto(its, id, inventories) ==
    [its EXCEPT ![id].owners = MergeAll(@, inventories)]

RECURSIVE SumCounts(_)
SumCounts(owners) ==
    IF owners = <<>> THEN 0
    ELSE Head(owners).count + SumCounts(Tail(owners))

\* A default that reads a missing lastPage as "one more page".
LastPage_more(m, p) == IF m = 0 THEN p + 1 ELSE m

\* data.get("meta", {}).get("lastPage", page)
LastPage(m, p) == IF m = 0 THEN p ELSE m

\* The next value of `declared` after a well-formed page declaring lp.
Declare(d, lp) ==
    IF lp = 0 THEN -1
    ELSE IF d = 0 \/ d = lp THEN lp ELSE -1

\* The environment fails requests (429, malformed envelope, unparsable body)
\* only early in the run; an exception of the transport can come at any time.
ItemsMayFail == Len(itemsFetched) < FaultyPages
OwnersMayFail == regs <= FaultyItems

ItemsUrl(p) == [ep |-> "items", id |-> 0, page |-> p]
OwnersUrl(i, p) == [ep |-> "owners", id |-> i, page |-> p]

(***************************************************************************)
(* Initial state: module import (items = {}) and the first statement of    *)
(* process_all_items (page = 1).                                           *)
(***************************************************************************)
Imported ==
    /\ mode \in {"Direct", "Bypass"}
    /\ pc = "fetch_items"
    /\ items = [i \in Ids |-> NoItem]
    /\ page = 1
    /\ pending = <<>>
    /\ meta = 0
    /\ item_id = 0
    /\ opage = 0
    /\ attempt = 1
    /\ response = "none"
    /\ url = NoUrl
    /\ file = NoFile
    /\ rlRetries = 0
    /\ bodyRetries = 0
    /\ itemsFetched = <<>>
    /\ ownersFetched = <<>>
    /\ paced = FALSE
    /\ merged = [i \in Ids |-> 0]
    /\ open = {}
    /\ declared = 0
    /\ regs = 0
    /\ lastEmpty = FALSE
    /\ lastNone = 0
    /\ overwrote = FALSE
    /\ noPages = FALSE

\* A run of the collector: none of the functions below is applied on its own.
Init ==
    /\ Imported
    /\ fn = "none"
    /\ fpc = "none"
    /\ arg = <<>>
    /\ text = <<>>
    /\ data = <<>>
    /\ ret = <<>>

hist == <<rlRetries, bodyRetries, itemsFetched, ownersFetched, paced, merged,
          open, declared, regs, lastEmpty, lastNone, overwrote, noPages>>

(***************************************************************************)
(* Steps shared by the two scripts (the code is the same in both).         *)
(***************************************************************************)
\* An uncaught exception ends the run.
Crash ==
    /\ pc' = "crashed"
    /\ UNCHANGED <<items, page, pending, meta, item_id, opage, attempt,
                   response, file>>

\* A registration that keeps the owners an earlier listing of the same id
\* gathered, so that the second pass adds to them.
RegisterEntry_keep ==
    /\ pc = "for_entry"
    /\ pending # <<>>
    /\ LET entry == Head(pending) IN
        /\ item_id' = entry.id
        /\ items' = [items EXCEPT ![entry.id] =
                        [name |-> EntryName(entry), owners |-> @.owners]]
        /\ merged' = [merged EXCEPT ![entry.id] = 0]
        /\ open' = open \cup {entry.id}
        /\ overwrote' = (items[entry.id].owners # <<>>)
    /\ pending' = Tail(pending)
    /\ opage' = 1
    /\ pc' = "fetch_owners"
    /\ regs' = regs + 1
    /\ ownersFetched' = <<>>
    /\ lastEmpty' = FALSE
    /\ noPages' = FALSE
    /\ UNCHANGED <<mode, page, meta, attempt, response, url, file, rlRetries,
                   bodyRetries, itemsFetched, paced, declared, lastNone>>

\* A registration that leaves the owners for later: the loop goes on to the
\* next entry without calling process_owners.
RegisterEntry_deferred ==
    /\ pc = "for_entry"
    /\ pending # <<>>
    /\ LET entry == Head(pending) IN
        /\ item_id' = entry.id
        /\ items' = [items EXCEPT ![entry.id] =
                        [name |-> EntryName(entry), owners |-> <<>>]]
        /\ merged' = [merged EXCEPT ![entry.id] = 0]
        /\ open' = open \cup {entry.id}
        /\ overwrote' = (items[entry.id].owners # <<>>)
    /\ pending' = Tail(pending)
    /\ regs' = regs + 1
    /\ UNCHANGED <<mode, pc, page, meta, opage, attempt, response, url, file,
                   rlRetries, bodyRetries, itemsFetched, ownersFetched, paced,
                   declared, lastEmpty, noPages, lastNone>>

\* for entry in data_list: items[item_id] = {...}; process_owners(item_id)
\* up to the first statement of process_owners (page = 1).
RegisterEntry ==
    /\ pc = "for_entry"
    /\ pending # <<>>
    /\ LET entry == Head(pending) IN
        /\ item_id' = entry.id
        /\ items' = [items EXCEPT ![entry.id] =
                        [name |-> EntryName(entry), owners |-> <<>>]]
        /\ merged' = [merged EXCEPT ![entry.id] = 0]
        /\ open' = open \cup {entry.id}
        /\ overwrote' = (items[entry.id].owners # <<>>)
    /\ pending' = Tail(pending)
    /\ opage' = 1
    /\ pc' = "fetch_owners"
    /\ regs' = regs + 1
    /\ ownersFetched' = <<>>
    /\ lastEmpty' = FALSE
    /\ noPages' = FALSE
    /\ UNCHANGED <<mode, page, meta, attempt, response, url, file, rlRetries,
                   bodyRetries, itemsFetched, paced, declared, lastNone>>

\* An advance that leaves out a page.
NextPage_two(p) == p + 2

\* page += 1
NextPage(p) == p + 1

\* A stop test that lets the page after the last one be fetched.
LastPageReached_gt == page > LastPage(meta, page)

\* if page >= last_page
LastPageReached == page >= LastPage(meta, page)

\* After the for loop: last_page = ...get("lastPage", page);
\* if page >= last_page: return/break; page += 1; time.sleep(PAGE_DELAY)
ItemsNext ==
    /\ pc = "for_entry"
    /\ pending = <<>>
    /\ IF LastPageReached
       THEN /\ pc' = "save"
            /\ UNCHANGED <<page, paced>>
       ELSE /\ page' = NextPage(page)
            /\ paced' = TRUE
            /\ pc' = "fetch_items"
    /\ UNCHANGED <<mode, items, pending, meta, item_id, opage, attempt,
                   response, url, file, rlRetries, bodyRetries, itemsFetched,
                   ownersFetched, merged, open, declared, regs, overwrote, lastEmpty, noPages,
                   lastNone>>

\* process_owners returns to the for loop of process_all_items.
OwnersReturn ==
    /\ pc' = "for_entry"
    /\ open' = open \ {item_id}
    /\ UNCHANGED opage

\* An items page was parsed: the for loop starts over its data list.
ItemsParsed(b) ==
    /\ Len(b.data) + regs <= MaxRegs
    /\ pending' = b.data
    /\ meta' = b.lastPage
    /\ pc' = "for_entry"
    /\ itemsFetched' = Append(itemsFetched, page)
    /\ declared' = Declare(declared, b.lastPage)
    /\ bodyRetries' = 0
    /\ paced' = FALSE
    /\ UNCHANGED <<items, page, item_id, opage, attempt, response, file,
                   ownersFetched, merged, open, regs, overwrote, lastEmpty, noPages>>

\* An emptiness test that never stops the loop.
NoInventories_never(b) == FALSE

\* if not inventories
NoInventories(b) == b.inventories = <<>>

\* An owners page was parsed: the body of process_owners' loop after the try.
OwnersParsed(b) ==
    /\ ownersFetched' = Append(ownersFetched, opage)
    /\ bodyRetries' = 0
    /\ lastEmpty' = (b.inventories = <<>>)
    /\ noPages' = (b.inventories # <<>> /\ b.pages = 0)
    /\ IF NoInventories(b)
       THEN /\ OwnersReturn
            /\ paced' = FALSE
            /\ UNCHANGED <<items, merged>>
       ELSE /\ items' = MergeInto(items, item_id, b.inventories)
            /\ merged' = [merged EXCEPT ![item_id] = @ + Len(b.inventories)]
            /\ IF opage >= b.pages
               THEN /\ OwnersReturn
                    /\ paced' = FALSE
               ELSE /\ opage' = NextPage(opage)
                    /\ paced' = TRUE
                    /\ pc' = "fetch_owners"
                    /\ UNCHANGED open
    /\ UNCHANGED <<page, pending, meta, item_id, attempt, response, file,
                   itemsFetched, declared, regs, overwrote>>

\* A retry that moves on to the next page instead of fetching the same one.
RetryPage_skip(next) ==
    /\ bodyRetries < MaxBodyRetries
    /\ bodyRetries' = bodyRetries + 1
    /\ pc' = next
    /\ IF next = "fetch_items"
       THEN page' = page + 1 /\ UNCHANGED opage
       ELSE opage' = opage + 1 /\ UNCHANGED page
    /\ UNCHANGED <<items, pending, meta, item_id, attempt, response,
                   file, itemsFetched, ownersFetched, paced, merged, open,
                   regs, overwrote, lastEmpty, noPages>>

\* except json.JSONDecodeError: print(...); time.sleep(...); continue
\* The loop starts over with the same page: the fetch is made again.
RetryPage(next) ==
    /\ bodyRetries < MaxBodyRetries
    /\ bodyRetries' = bodyRetries + 1
    /\ pc' = next
    /\ UNCHANGED <<items, page, pending, meta, item_id, opage, attempt,
                   response, file, itemsFetched, ownersFetched, paced, merged,
                   open, regs, overwrote, lastEmpty, noPages>>

\* A save made inside the for loop, while entries are still to be visited.
Save_incremental ==
    /\ pc = "for_entry"
    /\ file' = <<items>>
    /\ UNCHANGED <<mode, pc, items, page, pending, meta, item_id, opage,
                   attempt, response, url>>
    /\ UNCHANGED hist

\* json.dump(items, f) in main / save_owners.
Save ==
    /\ pc = "save"
    /\ file' = <<items>>
    /\ pc' = "done"
    /\ UNCHANGED <<mode, items, page, pending, meta, item_id, opage, attempt,
                   response, url>>
    /\ UNCHANGED hist

(***************************************************************************)
(* Direct mode: getjson.py                                                 *)
(***************************************************************************)
\* What requests.get gives: a response with a status, or an exception.
GetOutcomes == {"200", "429", "Timeout", "ProxyError"}

\* requests.get(url, timeout=REQUEST_TIMEOUT)
Get(u, out, next) ==
    /\ url' = u
    /\ IF out \in {"Timeout", "ProxyError"}
       THEN Crash
       ELSE /\ response' = out
            /\ pc' = next
            /\ UNCHANGED <<items, page, pending, meta, item_id, opage,
                           attempt, file>>

\* response = fetch_items(page)
D_fetch_items ==
    /\ mode = "Direct"
    /\ pc = "fetch_items"
    /\ \E out \in GetOutcomes :
        /\ out = "429" => ItemsMayFail
        /\ Get(ItemsUrl(page), out, "rl_items")
        /\ declared' = (IF out = "429" THEN -1 ELSE declared)
    /\ rlRetries' = 0
    /\ UNCHANGED <<mode, bodyRetries, itemsFetched, ownersFetched, paced,
                   merged, open, regs, overwrote, lastEmpty, noPages, lastNone>>
    /\ UNCHANGED fvars

\* response = fetch_owners(item_id, page)
D_fetch_owners ==
    /\ mode = "Direct"
    /\ pc = "fetch_owners"
    /\ \E out \in GetOutcomes :
        /\ out = "429" => OwnersMayFail
        /\ Get(OwnersUrl(item_id, opage), out, "rl_owners")
    /\ rlRetries' = 0
    /\ UNCHANGED <<mode, bodyRetries, itemsFetched, ownersFetched, paced,
                   merged, open, declared, regs, overwrote, lastEmpty, noPages, lastNone>>
    /\ UNCHANGED fvars

\* A retry that builds the URL anew with the default page=1.
RetryUrl_default == [url EXCEPT !.page = 1]

\* response.url, the URL handle_rate_limit requests again.
RetryUrl == url

\* handle_rate_limit: one test of the while condition, and one turn of its
\* body (sleep, then GET response.url again) when the status is 429.
handle_rate_limit ==
    /\ mode = "Direct"
    /\ pc \in {"rl_items", "rl_owners"}
    /\ IF response = "429"
       THEN /\ \E out \in GetOutcomes :
                /\ out = "429" => rlRetries < MaxRateLimit
                /\ Get(RetryUrl, out, pc)
            /\ rlRetries' = rlRetries + 1
       ELSE /\ pc' = (IF pc = "rl_items" THEN "parse_items" ELSE "parse_owners")
            /\ UNCHANGED <<items, page, pending, meta, item_id, opage,
                           attempt, response, url, file, rlRetries>>
    /\ UNCHANGED <<mode, bodyRetries, itemsFetched, ownersFetched, paced,
                   merged, open, declared, regs, overwrote, lastEmpty, noPages, lastNone>>
    /\ UNCHANGED fvars

\* process_all_items: data = response.json(), the except branch, and the
\* start of the for loop (data.get("data", []) reads a missing list as []).
D_parse_items ==
    /\ mode = "Direct"
    /\ pc = "parse_items"
    /\ \/ /\ ItemsMayFail                       \* json.JSONDecodeError
          /\ RetryPage("fetch_items")
          /\ declared' = -1
       \/ \E b \in ItemsPages : ItemsParsed(b)
    /\ UNCHANGED <<mode, url, rlRetries, lastNone>>
    /\ UNCHANGED fvars

D_register == mode = "Direct" /\ RegisterEntry /\ UNCHANGED fvars

D_items_next == mode = "Direct" /\ ItemsNext /\ UNCHANGED fvars

\* process_owners: data = response.json(), the except branch, and the rest
\* of the loop body.
D_parse_owners ==
    /\ mode = "Direct"
    /\ pc = "parse_owners"
    /\ \/ /\ OwnersMayFail                      \* json.JSONDecodeError
          /\ RetryPage("fetch_owners")
          /\ UNCHANGED declared
       \/ \E b \in OwnersPages : OwnersParsed(b)
    /\ UNCHANGED <<mode, url, rlRetries, lastNone>>
    /\ UNCHANGED fvars

D_main_save == mode = "Direct" /\ Save /\ UNCHANGED fvars

(***************************************************************************)
(* Bypass mode: getjson_cfbypass.py                                        *)
(***************************************************************************)
\* What one turn of the for loop of fetch_items / fetch_owners gives: the
\* solution text, one of the two caught errors of a malformed envelope, or
\* an exception of requests.post, which the except clause does not name.
PostOutcomes == {"ok", "KeyError", "JSONDecodeError", "Timeout", "ProxyError"}

\* One turn of `for attempt in range(1, max_retries + 1)`, and the return
\* None after the loop when the last turn failed.
Attempt(out, max_retries, next) ==
    IF out \in {"Timeout", "ProxyError"}
    THEN Crash /\ UNCHANGED lastNone
    ELSE IF out = "ok"
    THEN /\ response' = "body"
         /\ attempt' = 1
         /\ lastNone' = 0
         /\ pc' = next
         /\ UNCHANGED <<items, page, pending, meta, item_id, opage, file>>
    ELSE IF attempt < max_retries
    THEN /\ attempt' = attempt + 1
         /\ UNCHANGED <<pc, items, page, pending, meta, item_id, opage,
                        response, file, lastNone>>
    ELSE /\ response' = "None"
         /\ lastNone' = attempt
         /\ attempt' = 1
         /\ pc' = next
         /\ UNCHANGED <<items, page, pending, meta, item_id, opage, file>>

\* response = fetch_items(page)
B_fetch_items ==
    /\ mode = "Bypass"
    /\ pc = "fetch_items"
    /\ \E out \in PostOutcomes :
        /\ out \in {"KeyError", "JSONDecodeError"} =>
              /\ ItemsMayFail
              /\ attempt >= ITEMS_MAX_RETRIES => page < MaxPage
        /\ Attempt(out, ITEMS_MAX_RETRIES, "parse_items")
        /\ declared' = (IF out \in {"KeyError", "JSONDecodeError"}
                        THEN -1 ELSE declared)
    /\ UNCHANGED <<mode, url, rlRetries, bodyRetries, itemsFetched,
                   ownersFetched, paced, merged, open, regs, overwrote, lastEmpty, noPages>>
    /\ UNCHANGED fvars

\* response = fetch_owners(item_id, page)
B_fetch_owners ==
    /\ mode = "Bypass"
    /\ pc = "fetch_owners"
    /\ \E out \in PostOutcomes :
        /\ out \in {"KeyError", "JSONDecodeError"} => OwnersMayFail
        /\ Attempt(out, OWNERS_MAX_RETRIES, "parse_owners")
    /\ UNCHANGED <<mode, url, rlRetries, bodyRetries, itemsFetched,
                   ownersFetched, paced, merged, open, declared, regs, overwrote,
                   lastEmpty, noPages>>
    /\ UNCHANGED fvars

\* A skip that throws away what earlier pages of the item gave.
OwnersNone_reset ==
    /\ OwnersReturn
    /\ items' = [items EXCEPT ![item_id].owners = <<>>]
    /\ UNCHANGED <<page, pending, meta, item_id, attempt, response, file,
                   bodyRetries, itemsFetched, ownersFetched, paced, merged,
                   declared, regs, overwrote, lastEmpty, noPages>>

\* if response is None: print(...); break
OwnersNone ==
    /\ OwnersReturn
    /\ UNCHANGED <<items, page, pending, meta, item_id, attempt, response,
                   file, bodyRetries, itemsFetched, ownersFetched, paced,
                   merged, declared, regs, overwrote, lastEmpty, noPages>>

\* A skip that stays on the page.
SkipItemsPage_stay ==
    /\ page' = page
    /\ pc' = "fetch_items"
    /\ UNCHANGED <<items, pending, meta, item_id, opage, attempt, response,
                   file, ownersFetched, merged, open, regs, overwrote, lastEmpty, noPages, paced>>

\* `page += 1; continue` of process_all_items, without the lastPage test.
SkipItemsPage ==
    /\ page' = NextPage(page)
    /\ pc' = "fetch_items"
    /\ UNCHANGED <<items, pending, meta, item_id, opage, attempt, response,
                   file, ownersFetched, merged, open, regs, overwrote, lastEmpty, noPages, paced>>

\* process_all_items from `if response is None` to the start of the for loop.
B_parse_items ==
    /\ mode = "Bypass"
    /\ pc = "parse_items"
    /\ IF response = "None"
       THEN /\ SkipItemsPage
            /\ UNCHANGED <<itemsFetched, declared, bodyRetries>>
       ELSE \/ /\ ItemsMayFail                  \* json.JSONDecodeError
               /\ RetryPage("fetch_items")
               /\ declared' = -1
            \/ \E b \in ItemsPages :
                IF b.hasData
                THEN ItemsParsed(b)
                ELSE /\ page < MaxPage          \* not isinstance(data_list, list)
                     /\ SkipItemsPage
                     /\ declared' = -1
                     /\ bodyRetries' = 0
                     /\ UNCHANGED itemsFetched
    /\ UNCHANGED <<mode, url, rlRetries, lastNone>>
    /\ UNCHANGED fvars

B_register == mode = "Bypass" /\ RegisterEntry /\ UNCHANGED fvars

B_items_next == mode = "Bypass" /\ ItemsNext /\ UNCHANGED fvars

\* process_owners from `if response is None` to the end of the loop body.
B_parse_owners ==
    /\ mode = "Bypass"
    /\ pc = "parse_owners"
    /\ IF response = "None"
       THEN OwnersNone
       ELSE \/ /\ OwnersMayFail                 \* json.JSONDecodeError
               /\ RetryPage("fetch_owners")
               /\ UNCHANGED declared
            \/ \E b \in OwnersPages : OwnersParsed(b)
    /\ UNCHANGED <<mode, url, rlRetries, lastNone>>
    /\ UNCHANGED fvars

B_main_save == mode = "Bypass" /\ Save /\ UNCHANGED fvars

Next ==
    \/ D_fetch_items
    \/ handle_rate_limit
    \/ D_parse_items
    \/ D_register
    \/ D_items_next
    \/ D_fetch_owners
    \/ D_parse_owners
    \/ D_main_save
    \/ B_fetch_items
    \/ B_parse_items
    \/ B_register
    \/ B_items_next
    \/ B_fetch_owners
    \/ B_parse_owners
    \/ B_main_save

Spec == Init /\ [][Next]_vars

(***************************************************************************)
(* The functions checked on their own: the merge loop of process_owners,   *)
(* save_owners followed by process_data of main.py, and aggregate_others.  *)
(* A Python dict is a sequence of [k, v] pairs with distinct keys, in      *)
(* insertion order.  An item id is an int or a str: [kind, digits], where  *)
(* digits is its decimal text (the int 10 and the str "10" are two keys).  *)
(***************************************************************************)
MaxSnapItems == 2     \* items in a snapshot
MaxTopN == 3          \* largest top_n

SnapIds == [kind : {"int", "str"}, digits : {"10", "11"}]

\* Owners lists as process_owners builds them.
SnapOwners == {<<>>, <<[name |-> "a", count |-> 2]>>,
               <<[name |-> "", count |-> 1], [name |-> "a", count |-> 1]>>}

SnapItems == [name : {"Hat", ""}, owners : SnapOwners]

DistinctKeys(d) == \A i, j \in 1..Len(d) : i # j => d[i].k # d[j].k

\* The global dict `items` at the time of the dump.
Snapshots == {d \in SeqsUpTo([k : SnapIds, v : SnapItems], MaxSnapItems) :
                 DistinctKeys(d)}

\* The owners list an item has when a page is merged: names distinct.
PriorOwners ==
    {o \in SeqsUpTo([name : Usernames, count : 1..MaxInventories],
                    Cardinality(Usernames)) :
        \A i, j \in 1..Len(o) : i # j => o[i].name # o[j].name}

\* user_counts as main.py hands it to aggregate_others.
UserNames == {"carol", "alice", "bob", "Others"}
UserCounts == {d \in SeqsUpTo([k : UserNames, v : {1, 3, 5}],
                              Cardinality(UserNames)) : DistinctKeys(d)}

DictHas(d, key) == \E i \in 1..Len(d) : d[i].k = key

\* d.get(key, default)
DictGet(d, key, default) ==
    IF DictHas(d, key)
    THEN d[CHOOSE i \in 1..Len(d) : d[i].k = key].v
    ELSE default

\* d[key] = value: a key the dict has keeps its place.
DictSet(d, key, value) ==
    IF DictHas(d, key)
    THEN [i \in 1..Len(d) |->
             IF d[i].k = key THEN [k |-> key, v |-> value] ELSE d[i]]
    ELSE Append(d, [k |-> key, v |-> value])

\* sum(d.values())
RECURSIVE SumValues(_)
SumValues(d) == IF d = <<>> THEN 0 ELSE Head(d).v + SumValues(Tail(d))

\* json.dump writes a dict key as a JSON string: an int by its decimal text,
\* a str as it is.
JsonKey(id) == id.digits

\* json.dump of a str and of an int, and json.load of them.
JsonString(s) == [t |-> "string", lit |-> s]
JsonNumber(n) == [t |-> "number", lit |-> n]
JsonValue(j) == j.lit

EncodeItem(item) ==
    [name |-> JsonString(item.name),
     owners |-> [i \in 1..Len(item.owners) |->
                    [name |-> JsonString(item.owners[i].name),
                     count |-> JsonNumber(item.owners[i].count)]]]

DecodeItem(j) ==
    [name |-> JsonValue(j.name),
     owners |-> [i \in 1..Len(j.owners) |->
                    [name |-> JsonValue(j.owners[i].name),
                     count |-> JsonValue(j.owners[i].count)]]]

\* json.dump(items, f, indent=4): one member per key, in the dict's order.
JsonDump(d) ==
    [i \in 1..Len(d) |-> [k |-> JsonKey(d[i].k), v |-> EncodeItem(d[i].v)]]

\* A load that keeps the first of two members of the same name.
LoadMember_first(d, member) ==
    IF DictHas(d, [kind |-> "str", digits |-> member.k]) THEN d
    ELSE DictSet(d, [kind |-> "str", digits |-> member.k],
                 DecodeItem(member.v))

\* json.load adds the members to a dict in order: every key is a str, and
\* a later member of the same name replaces the value of an earlier one.
LoadMember(d, member) ==
    DictSet(d, [kind |-> "str", digits |-> member.k], DecodeItem(member.v))

RECURSIVE JsonLoad(_, _)
JsonLoad(d, members) ==
    IF members = <<>> THEN d
    ELSE JsonLoad(LoadMember(d, Head(members)), Tail(members))

\* for owner in record.get("owners", []): user_counts[name] += count;
\* total_lims += count.  (An item of the snapshot always has "owners", and
\* an owner always has "name" and "count".)
RECURSIVE CountOwners(_, _)
CountOwners(acc, owners) ==
    IF owners = <<>> THEN acc
    ELSE LET owner == Head(owners) IN
         CountOwners(
            [user_counts |-> DictSet(acc.user_counts, owner.name,
                                DictGet(acc.user_counts, owner.name, 0)
                                    + owner.count),
             total_lims |-> acc.total_lims + owner.count],
            Tail(owners))

\* for record in data.values()
RECURSIVE CountRecords(_, _)
CountRecords(acc, d) ==
    IF d = <<>> THEN acc
    ELSE CountRecords(CountOwners(acc, Head(d).v.owners), Tail(d))

\* process_data after json.load: returns user_counts, total_lims.
process_data(d) == CountRecords([user_counts |-> <<>>, total_lims |-> 0], d)

\* aggregate_others(user_counts, top_n)
aggregate_others(user_counts, top_n) ==
    LET total == SumValues(user_counts) IN
    IF Len(user_counts) <= top_n
    THEN user_counts
    ELSE LET top_n_dict == SubSeq(user_counts, 1, top_n)
             others_count == total - SumValues(top_n_dict)
         IN  DictSet(top_n_dict, "Others", others_count)

FnInit ==
    /\ Imported
    /\ mode = "Direct"
    /\ fpc = "in"
    /\ text = <<>>
    /\ data = <<>>
    /\ ret = <<>>
    /\ \/ /\ fn = "process_owners"
          /\ arg \in [owners : PriorOwners,
                      inventories : SeqsUpTo(InvRecords, MaxInventories)]
       \/ /\ fn = "snapshot"
          /\ arg \in Snapshots
       \/ /\ fn = "aggregate_others"
          /\ arg \in [user_counts : UserCounts, top_n : 0..MaxTopN]

\* process_owners: the loop `for inv in inventories` over one parsed page.
merge_inventories ==
    /\ fn = "process_owners"
    /\ fpc = "in"
    /\ ret' = MergeAll(arg.owners, arg.inventories)
    /\ fpc' = "out"
    /\ UNCHANGED <<fn, arg, text, data>>
    /\ UNCHANGED vars

\* save_owners / main of getjson.py: json.dump(items, f, indent=4)
save_owners ==
    /\ fn = "snapshot"
    /\ fpc = "in"
    /\ text' = JsonDump(arg)
    /\ fpc' = "saved"
    /\ UNCHANGED <<fn, arg, data, ret>>
    /\ UNCHANGED vars

\* process_data: with open(file_path) as f: data = json.load(f)
process_data_load ==
    /\ fn = "snapshot"
    /\ fpc = "saved"
    /\ data' = JsonLoad(<<>>, text)
    /\ fpc' = "loaded"
    /\ UNCHANGED <<fn, arg, text, ret>>
    /\ UNCHANGED vars

\* process_data: the two for loops and the return.
process_data_count ==
    /\ fn = "snapshot"
    /\ fpc = "loaded"
    /\ ret' = process_data(data)
    /\ fpc' = "out"
    /\ UNCHANGED <<fn, arg, text, data>>
    /\ UNCHANGED vars

\* with_others = aggregate_others(sorted_counts, top_n)
apply_aggregate_others ==
    /\ fn = "aggregate_others"
    /\ fpc = "in"
    /\ ret' = aggregate_others(arg.user_counts, arg.top_n)
    /\ fpc' = "out"
    /\ UNCHANGED <<fn, arg, text, data>>
    /\ UNCHANGED vars

FnNext ==
    \/ merge_inventories
    \/ save_owners
    \/ process_data_load
    \/ process_data_count
    \/ apply_aggregate_others

SpecFn == FnInit /\ [][FnNext]_fvars

(***************************************************************************)
(* Properties.                                                             *)
(***************************************************************************)
ItemsPcs == {"fetch_items", "rl_items", "parse_items"}
OwnersPcs == {"fetch_owners", "rl_owners", "parse_owners"}
UpTo(n) == [i \in 1..n |-> i]
MalformedBody == bodyRetries' = bodyRetries + 1
PageParsed ==
    \/ Len(itemsFetched') > Len(itemsFetched)
    \/ Len(ownersFetched') > Len(ownersFetched)

TypeOK ==
    /\ mode \in {"Direct", "Bypass"}
    /\ pc \in ItemsPcs \cup OwnersPcs \cup {"for_entry", "save", "done", "crashed"}
    /\ page \in 1..(MaxPage + 1)
    /\ opage \in 0..(MaxOwnerPages + 1)
    /\ attempt \in 1..OWNERS_MAX_RETRIES
    /\ response \in {"none", "200", "429", "body", "None"}
    /\ regs \in 0..MaxRegs
    /\ bodyRetries \in 0..MaxBodyRetries
    /\ rlRetries \in 0..(MaxRateLimit + 1)

\* C1: in both modes, every item's owners list has pairwise distinct names,
\* counts >= 1, and counts summing to the number of inventory records of the
\* owners pages parsed for the item since its last registration.
C1_OwnersCounts ==
    \A i \in Ids :
        LET owners == items[i].owners IN
        /\ \A j, k \in 1..Len(owners) :
               j # k => owners[j].name # owners[k].name
        /\ \A j \in 1..Len(owners) : owners[j].count >= 1
        /\ SumCounts(owners) = merged[i]

\* Two pages of two records each were merged into two owners.
C1_Witness ==
    /\ pc = "for_entry"
    /\ ownersFetched = <<1, 2>>
    /\ merged[item_id] = 4
    /\ Len(items[item_id].owners) = 2

\* C2: in Bypass mode fetch_owners returns None only after exactly 7
\* attempts; process_owners then returns to the for loop of
\* process_all_items without raising, and leaves the dict, the items cursor
\* and the entries still to visit as they are.
C2_OwnersSkipped ==
    /\ [][(mode = "Bypass" /\ pc = "parse_owners" /\ response = "None") =>
            /\ lastNone = OWNERS_MAX_RETRIES
            /\ pc' = "for_entry"
            /\ items' = items
            /\ pending' = pending
            /\ page' = page]_vars
    /\ [][(mode = "Bypass" /\ pc = "fetch_owners" /\ pc' = "parse_owners"
           /\ response' = "None") => attempt = OWNERS_MAX_RETRIES]_vars
    /\ []((mode = "Bypass" /\ pc = "fetch_owners") =>
            attempt \in 1..OWNERS_MAX_RETRIES)

\* Page 2 of an item was skipped after 7 attempts, the two records of its
\* page 1 are kept, and another entry of the items page is still to visit.
C2_Witness ==
    /\ mode = "Bypass"
    /\ pc = "for_entry"
    /\ response = "None"
    /\ lastNone = 7
    /\ opage = 2
    /\ SumCounts(items[item_id].owners) = 2
    /\ pending # <<>>

C4_NoCrash == pc # "crashed"

\* C5: when every items request so far was answered at once by a well-formed
\* page declaring lastPage = N, the pages parsed are 1, 2, ... in order, each
\* once, the cursor never exceeds N, and the loop ends after exactly N pages.
C5_ItemsPagination ==
    declared >= 1 =>
        /\ itemsFetched = UpTo(Len(itemsFetched))
        /\ Len(itemsFetched) <= declared
        /\ page <= declared
        /\ pc \in ItemsPcs => page = Len(itemsFetched) + 1
        /\ pc \notin ItemsPcs \cup {"crashed"} => page = Len(itemsFetched)
        /\ pc \in {"save", "done"} => itemsFetched = UpTo(declared)

\* A run over a source declaring lastPage = 2 ended after pages 1 and 2.
C5_Witness ==
    /\ pc = "done"
    /\ declared = 2
    /\ itemsFetched = <<1, 2>>
    /\ regs = 2

\* C6: the parse of an owners page with no inventories leaves the dict
\* unchanged and ends process_owners; no owners page of the item is fetched
\* after it, and the pages fetched before it are 1, 2, ... in order.
C6_EmptyPageStops ==
    /\ [][(Len(ownersFetched') > Len(ownersFetched) /\ lastEmpty') =>
            /\ items' = items
            /\ pc' = "for_entry"
            /\ item_id \notin open']_vars
    /\ [](lastEmpty =>
            /\ pc \notin OwnersPcs
            /\ ownersFetched = UpTo(Len(ownersFetched)))

\* Page 1 gave two records, page 2 was empty: exactly pages 1 and 2 were
\* fetched and the owners are those of page 1.
C6_Witness ==
    /\ lastEmpty
    /\ ownersFetched = <<1, 2>>
    /\ pc = "for_entry"
    /\ merged[item_id] = 2

\* C7: in Bypass mode a None from fetch_items comes after exactly 5
\* attempts, registers nothing and moves the cursor to the next page; in
\* Direct mode an items body that does not parse leaves the cursor and the
\* dict as they are and the same page is fetched again.
C7_ItemsSkipped ==
    /\ [][(mode = "Bypass" /\ pc = "parse_items" /\ response = "None") =>
            /\ lastNone = ITEMS_MAX_RETRIES
            /\ page' = page + 1
            /\ pc' = "fetch_items"
            /\ items' = items
            /\ regs' = regs
            /\ pending' = pending
            /\ itemsFetched' = itemsFetched]_vars
    /\ [][(mode = "Bypass" /\ pc = "fetch_items" /\ pc' = "parse_items"
           /\ response' = "None") => attempt = ITEMS_MAX_RETRIES]_vars
    /\ [][(mode = "Direct" /\ pc = "parse_items" /\ MalformedBody) =>
            /\ page' = page
            /\ pc' = "fetch_items"
            /\ items' = items
            /\ regs' = regs]_vars

\* In Bypass mode page 1 was skipped: page 2 is requested and no page has
\* been parsed, no item registered.
C7_Witness ==
    /\ mode = "Bypass"
    /\ pc = "fetch_items"
    /\ page = 2
    /\ itemsFetched = <<>>
    /\ lastNone = ITEMS_MAX_RETRIES
    /\ regs = 0

\* In Direct mode items page 1 is about to be fetched again after more
\* bodies that did not parse than the Bypass cap of 5.
C7_WitnessDirect ==
    /\ mode = "Direct"
    /\ pc = "fetch_items"
    /\ page = 1
    /\ bodyRetries > ITEMS_MAX_RETRIES

\* C8: in Direct mode, while the response in hand is a 429,
\* handle_rate_limit requests the same URL again (or the request raises);
\* the cursors, the dict and the file are unchanged, the URL is the one of
\* the current page, and the loop goes on to parse only a non-429 response.
C8_RateLimit ==
    /\ [][(mode = "Direct" /\ pc \in {"rl_items", "rl_owners"}
           /\ response = "429") =>
            /\ pc' \in {pc, "crashed"}
            /\ rlRetries' = rlRetries + 1
            /\ url' = url
            /\ page' = page
            /\ opage' = opage
            /\ items' = items
            /\ pending' = pending
            /\ file' = file]_vars
    /\ [][(pc \in {"rl_items", "rl_owners"} /\ pc' \notin {pc, "crashed"}) =>
            /\ response # "429"
            /\ response' = response
            /\ pc' = (IF pc = "rl_items" THEN "parse_items" ELSE "parse_owners")]_vars
    /\ []((pc \in {"rl_items", "parse_items"} /\ mode = "Direct") =>
            url = ItemsUrl(page))
    /\ []((pc \in {"rl_owners", "parse_owners"} /\ mode = "Direct") =>
            url = OwnersUrl(item_id, opage))

\* The request for owners page 2 of an item was answered 429 four times in a
\* row (three retries so far); the owners of page 1 are in the dict.
C8_Witness ==
    /\ mode = "Direct"
    /\ pc = "rl_owners"
    /\ response = "429"
    /\ rlRetries = 3
    /\ opage = 2
    /\ merged[item_id] > 0

\* C9: between any two consecutive successful page fetches a PAGE_DELAY
\* sleep occurs.
C9_Paced ==
    [][(PageParsed /\ itemsFetched # <<>>) => paced]_vars

\* C10: at most one item's owner collection is in progress; while owners
\* pages are fetched the item is the one registered last, and no owner
\* collection is in progress at a registration or at an items-page fetch.
C10_Synchronous ==
    /\ Cardinality(open) <= 1
    /\ pc \in OwnersPcs => open = {item_id} /\ items[item_id] # NoItem
    /\ pc \in ItemsPcs \cup {"for_entry", "save", "done"} => open = {}

\* The second page of the second registered item is being fetched while the
\* first item's owners are complete and the run is on items page 2.
C10_Witness ==
    /\ pc = "fetch_owners"
    /\ regs = 2
    /\ opage = 2
    /\ open = {item_id}
    /\ page = 2
    /\ \E i \in Ids \ {item_id} : items[i].owners # <<>>

\* C11: an id seen again is last-write-wins.  Every registration, of a new
\* id or of one already in the dict, sets the entry to the new name with an
\* empty owners list before process_owners starts on page 1 and leaves the
\* other entries alone; so at all times an entry's counts sum to the records
\* merged since its last registration, never to those of both passes.
C11_LastWriteWins ==
    /\ [][regs' = regs + 1 =>
            LET entry == Head(pending) IN
            /\ items'[entry.id] = [name |-> EntryName(entry), owners |-> <<>>]
            /\ \A i \in Ids \ {entry.id} : items'[i] = items[i]
            /\ merged'[entry.id] = 0
            /\ pc' = "fetch_owners" /\ opage' = 1 /\ item_id' = entry.id]_vars
    /\ [](\A i \in Ids : SumCounts(items[i].owners) = merged[i])

\* Item 10 was listed as "Hat" and gathered owners, then was listed again as
\* "Cap": the finished run holds "Cap" with the one record of the second pass.
C11_Witness ==
    /\ pc = "done"
    /\ overwrote
    /\ items[10].name = "Cap"
    /\ merged[10] = 1
    /\ SumCounts(items[10].owners) = 1
    /\ file = <<items>>

\* C12: owners.json is written at most once in a run, by the step that
\* follows the end of the items loop (the parsed page was the last one, its
\* entries were all visited, no process_owners call is open), and what is
\* written is the whole dict as it is then.  While a page is still to be
\* fetched, and in a run that ended inside the loop, there is no file.
C12_SnapshotOnce ==
    /\ [][file' # file =>
            /\ file = NoFile /\ file' = <<items>> /\ items' = items
            /\ pc = "save" /\ pc' = "done"
            /\ LastPageReached /\ pending = <<>> /\ open = {}]_vars
    /\ [](file # NoFile => pc = "done" /\ file = <<items>>)
    /\ [](pc \in ItemsPcs \cup OwnersPcs \cup {"for_entry", "crashed"}
             => file = NoFile)

\* Two items pages were walked, both items registered, and the file holds
\* both.
C12_Witness ==
    /\ pc = "done"
    /\ itemsFetched = <<1, 2>>
    /\ file # NoFile
    /\ \A i \in Ids : file[1][i] # NoItem

C16_AbsentDefaults ==
    /\ [][(pc = "for_entry" /\ pending = <<>> /\ meta = 0) =>
            pc' = "save" /\ page' = page]_vars
    /\ [](pc \in ItemsPcs /\ itemsFetched # <<>> => meta # 0)
    /\ [][(~noPages /\ noPages') =>
            /\ pc = "parse_owners" /\ pc' = "for_entry"
            /\ opage' = opage
            /\ ownersFetched' = Append(ownersFetched, opage)
            /\ merged'[item_id] > merged[item_id]
            /\ item_id \notin open']_vars
    /\ [](noPages => pc \notin OwnersPcs)

\* Items page 1 came without lastPage and the run is about to save; the
\* owners page 1 of the last item came with two records and without "pages".
C16_Witness ==
    /\ pc = "save"
    /\ meta = 0
    /\ itemsFetched = <<1>>
    /\ noPages
    /\ ownersFetched = <<1>>
    /\ merged[item_id] = 2

\* C17: while process_owners(item_id) runs, a step changes at most the
\* owners list of items[item_id]: the keys of the dict, every name and the
\* owners of every other item stay as they are, and item_id is a key.  Over
\* the whole run a key of the dict is never removed.
C17_OwnersFrame ==
    /\ [][(pc \in OwnersPcs) =>
            \A i \in Ids :
                /\ i # item_id => items'[i] = items[i]
                /\ items'[i].name = items[i].name
                /\ ((items'[i] = NoItem) <=> (items[i] = NoItem))]_vars
    /\ [](pc \in OwnersPcs => items[item_id] # NoItem)
    /\ [][\A i \in Ids : items[i] # NoItem => items'[i] # NoItem]_vars

\* process_owners(11) returned with two owners merged while item 10, registered
\* before, keeps its own single owner.
C17_Witness ==
    /\ pc = "for_entry"
    /\ item_id = 11
    /\ Len(items[11].owners) = 2
    /\ items[10].name = "Hat"
    /\ merged[10] = 1
    /\ Len(items[10].owners) = 1

Keys(d) == {d[i].k : i \in 1..Len(d)}

\* The id a JSON file can hold for an in-memory id: its text, as a str.
AsStr(id) == [kind |-> "str", digits |-> id.digits]

\* C13 as stated: the loaded mapping has the ids of the in-memory snapshot
\* and, under each id, the same name and owners.
C13_Original ==
    (fn = "snapshot" /\ fpc \in {"loaded", "out"}) =>
        /\ Keys(data) = Keys(arg)
        /\ \A i \in 1..Len(arg) : DictGet(data, arg[i].k, NoItem) = arg[i].v

\* C13, amended: the loaded mapping's ids are the decimal texts of the
\* in-memory ids, all of them strings (the int 10 comes back as "10").  An
\* item whose id's text is shared by no id inserted after it comes back
\* under that text with the same name and the same ordered owner name/count
\* pairs: so every item comes back when the texts are distinct, and of an
\* int id and a str id of the same text the one inserted later comes back.
C13_RoundTrip ==
    (fn = "snapshot" /\ fpc \in {"loaded", "out"}) =>
        /\ DistinctKeys(data)
        /\ Keys(data) = {AsStr(id) : id \in Keys(arg)}
        /\ \A i \in 1..Len(arg) :
               (\A j \in (i+1)..Len(arg) : AsStr(arg[j].k) # AsStr(arg[i].k))
                   => DictGet(data, AsStr(arg[i].k), NoItem) = arg[i].v

\* A snapshot of two items with int ids 10 and 11, both with owners, was
\* saved and loaded: two entries, under "10" and "11".
C13_Witness ==
    /\ fn = "snapshot"
    /\ fpc = "loaded"
    /\ Len(arg) = 2
    /\ arg[1].k = [kind |-> "int", digits |-> "10"]
    /\ arg[2].k = [kind |-> "int", digits |-> "11"]
    /\ arg[1].v.owners # <<>>
    /\ Len(arg[2].v.owners) = 2
    /\ Len(data) = 2
    /\ data[1].k = [kind |-> "str", digits |-> "10"]

SortedDesc(d) == \A i, j \in 1..Len(d) : i < j => d[i].v >= d[j].v

\* C14: for user_counts sorted by count descending, aggregate_others returns
\* it unchanged when it has at most top_n entries, and otherwise its first
\* top_n entries in order followed by an entry "Others" whose value is the
\* sum of the counts of the remaining entries.
C14_TopN ==
    (fn = "aggregate_others" /\ fpc = "out" /\ SortedDesc(arg.user_counts)) =>
        LET m == arg.user_counts
            n == arg.top_n
        IN  IF Len(m) <= n
            THEN ret = m
            ELSE ret = Append(SubSeq(m, 1, n),
                              [k |-> "Others",
                               v |-> SumValues(SubSeq(m, n + 1, Len(m)))])

\* A record that process_owners merges under the username "".
Blank(inv) == inv.user = Absent \/ inv.username = Absent \/ inv.username = ""

\* The count the owners list has under a name (0: no entry).
CountOf(owners, name) ==
    IF \E i \in 1..Len(owners) : owners[i].name = name
    THEN owners[CHOOSE i \in 1..Len(owners) : owners[i].name = name].count
    ELSE 0

\* C18: merging a page into an item's owners counts every record, those
\* without user or username too: the records without user, without username
\* or with the username "" all go to the one entry named "", whose count
\* grows by their number; the other entries grow by the records that name
\* them.
C18_BlankUsername ==
    (fn = "process_owners" /\ fpc = "out") =>
        LET invs == arg.inventories
            blanks == {i \in 1..Len(invs) : Blank(invs[i])}
        IN  /\ Cardinality({i \in 1..Len(ret) : ret[i].name = ""}) <= 1
            /\ blanks # {} => \E i \in 1..Len(ret) : ret[i].name = ""
            /\ CountOf(ret, "") = CountOf(arg.owners, "") + Cardinality(blanks)
            /\ SumCounts(ret) = SumCounts(arg.owners) + Len(invs)
            /\ \A i \in 1..Len(ret) : ret[i].name \in Usernames
            /\ \A u \in Usernames \ {""} :
                   CountOf(ret, u) = CountOf(arg.owners, u)
                       + Cardinality({i \in 1..Len(invs) :
                                        ~Blank(invs[i]) /\ invs[i].username = u})

\* An item that had one owner "" got a page of two records, one without
\* user and one with a user without username: its one owner "" counts 3.
C18_Witness ==
    /\ fn = "process_owners"
    /\ fpc = "out"
    /\ arg.owners = <<[name |-> "", count |-> 1]>>
    /\ Len(arg.inventories) = 2
    /\ arg.inventories[1].user = Absent
    /\ arg.inventories[2].user # Absent
    /\ arg.inventories[2].username = Absent
    /\ ret = <<[name |-> "", count |-> 3]>>

\* The counts of one user over all items of the loaded snapshot.
RECURSIVE UserTotal(_, _)
UserTotal(d, name) ==
    IF d = <<>> THEN 0
    ELSE CountOf(Head(d).v.owners, name) + UserTotal(Tail(d), name)

\* C19: process_data's user_counts sum to its total_lims, and every user's
\* value is the sum of that user's counts over the items; and the values of
\* aggregate_others' result sum to the sum of the values of its input, for
\* every top_n >= 0 and also when a user is named "Others".
C19_TotalPreserved ==
    /\ (fn = "snapshot" /\ fpc = "out") =>
            /\ DistinctKeys(ret.user_counts)
            /\ SumValues(ret.user_counts) = ret.total_lims
            /\ \A u \in {"a", ""} :
                   DictGet(ret.user_counts, u, 0) = UserTotal(data, u)
    /\ (fn = "aggregate_others" /\ fpc = "out") =>
            SumValues(ret) = SumValues(arg.user_counts)

====
